---- MODULE Spec2Model ----
(***************************************************************************)
(* Model of battery_degradation_app.py: the day-stepped State-of-Health    *)
(* recurrence simulate_battery_soh, the capacity it derives, and the       *)
(* consumers of its result (battery_svg, the result summary, the banner).  *)
(*                                                                         *)
(* Number representation.  The program computes in floating point.  Here   *)
(* every percentage is an integer count of units of 0.0000025 percent:     *)
(* that is the smallest step of the calendar term, 0.00005 * 0.05, and     *)
(* 100.0 percent is 40,000,000 units.  Inputs are held as the integers     *)
(* the widgets produce:                                                    *)
(*   habit_factor            in tenths        (1.0 -> 10, 1.2 -> 12)       *)
(*   calendar_aging_factor   in slider steps  (0.05 each, 0.5 -> 10)       *)
(*   init_capacity           in hundreds of mAh (the widget's step)        *)
(* A year value day/365 is held as the fraction <<day, 365>>.              *)
(***************************************************************************)
EXTENDS Integers, Sequences, FiniteSets

VARIABLES
  params,      \* the parameter bundle passed to simulate_battery_soh
  days,        \* horizon_days, the first argument
  pc,          \* "loop", "return", "render", "done"
  day,         \* the loop variable of `for day in range(1, days + 1)`
  SoH,         \* the SoH list (1-indexed here: SoH[1] is soh_pct[0])
  times,       \* the times list
  thresholds,  \* the dict {80: None, 60: None} and its recorded crossings
  capacity,    \* the capacity list, built after the loop
  ui,          \* what the page shows: icon colour, summary lines, banner
  lo,          \* pair specification: the run with the lower parameter
  hi           \* pair specification: the run with the higher parameter

vars == <<params, days, pc, day, SoH, times, thresholds, capacity, ui, lo, hi>>

-----------------------------------------------------------------------------
(* Units and program constants *)

\* units per percentage point: 1 / (0.00005 * 0.05)
Scale == 400000

\* thresholds[t] = day / 365
DaysPerYear == 365

\* the keys of the thresholds dict
Thresholds == {80, 60}

None == <<>>

Pct(n) == n * Scale

Max(a, b) == IF a >= b THEN a ELSE b

Last(s) == s[Len(s)]

-----------------------------------------------------------------------------
(* Inputs *)

\* the largest horizon_days tried
MaxHorizon == 1281

\* the maximum of the "Charge Cycles per Week" slider
MaxCycles == 21

CycleValues == {1, 20, MaxCycles}
TempValues == {25, 60}
HabitValues == {12}
DoDValues == {91}
CalendarValues == {0, 5, 10}
CapacityValues == {5, 40}
HorizonValues == {1, 365, 1280, MaxHorizon}
PairHorizonValues == {1, 600, MaxHorizon}

Bundles ==
  [charge_cycles_per_week : CycleValues,
   avg_temp : TempValues,
   habit_factor : HabitValues,
   depth_of_discharge : DoDValues,
   calendar_aging_factor : CalendarValues,
   init_capacity : CapacityValues]

-----------------------------------------------------------------------------
(* simulate_battery_soh *)

\* np.exp((avg_temp - 25) / 15), in thousandths, at the temperatures used
temp_factor(avg_temp) ==
  CASE avg_temp = 10 -> 368
    [] avg_temp = 25 -> 1000
    [] avg_temp = 40 -> 2718
    [] avg_temp = 55 -> 7389
    [] avg_temp = 60 -> 10312

\* variant: the calendar term is left out of the sum
degradeNoCalendar(p) ==
  (p.charge_cycles_per_week * p.depth_of_discharge * p.habit_factor
     * temp_factor(p.avg_temp)) \div 3500

\* degrade = cycle_deg * temp_factor + cal_deg, in units.
\*   cycle_deg * temp_factor
\*     = (c/7) * 0.005 * (dod/100) * (h/10) * (tf/1000) percent
\*     = c * dod * h * tf / 3500 units
\*   cal_deg = 0.00005 * (cal * 0.05) percent = cal units
degrade(p) ==
  (p.charge_cycles_per_week * p.depth_of_discharge * p.habit_factor
     * temp_factor(p.avg_temp)) \div 3500
  + p.calendar_aging_factor

\* next_soh = SoH[-1] - degrade
next_soh(prev, p) == prev - degrade(p)

\* variant: the value is appended without the max
ClampNone(next) == next

\* max(next_soh, 0)
Clamp(next) == Max(next, 0)

\* variant: t >= next_soh in place of t > next_soh
CrossesAtOrBelow(prev, t, next, recorded) ==
  /\ prev >= Pct(t)
  /\ Pct(t) >= next
  /\ recorded = None

\* variant: SoH[-2] > t in place of SoH[-2] >= t
CrossesStrictPrev(prev, t, next, recorded) ==
  /\ prev > Pct(t)
  /\ Pct(t) > next
  /\ recorded = None

\* variant: only `next_soh < t` is tested
CrossesBelowOnly(prev, t, next, recorded) == Pct(t) > next

\* SoH[-2] >= t > next_soh and thresholds[t] is None
Crosses(prev, t, next, recorded) ==
  /\ prev >= Pct(t)
  /\ Pct(t) > next
  /\ recorded = None

\* variant: the index of the previous element is converted, not the day
YearOffByOne(d) == <<d - 1, DaysPerYear>>

\* day / 365
Year(d) == <<d, DaysPerYear>>

\* variant: the clamped value is tested with <
ExhaustedClamped(next) == Max(next, 0) < 0

\* if next_soh <= 0: break
Exhausted(next) == next <= 0

\* variant: range(1, days + 2)
InRangePlusOne(d, n) == d <= n + 1

\* for day in range(1, days + 1): whether the loop has another value
InRange(d, n) == d <= n

\* the state at entry to the loop
InitialRun ==
  [SoH |-> <<Pct(100)>>, times |-> <<0>>,
   thresholds |-> [t \in Thresholds |-> None], day |-> 1, pc |-> "loop"]

\* one iteration of the loop body, or the loop's exit when the range is used up
Iterate(p, n, r) ==
  IF ~InRange(r.day, n)
  THEN [r EXCEPT !.pc = "return"]
  ELSE LET prev == Last(r.SoH)
           next == next_soh(prev, p)
       IN [SoH |-> Append(r.SoH, Clamp(next)),
           times |-> Append(r.times, r.day),
           thresholds |->
             [t \in Thresholds |->
                IF Crosses(prev, t, next, r.thresholds[t])
                THEN Year(r.day) ELSE r.thresholds[t]],
           day |-> IF Exhausted(next) THEN r.day ELSE r.day + 1,
           pc |-> IF Exhausted(next) THEN "return" ELSE "loop"]

\* variant: the comprehension runs over SoH[1:]
CapacitySkipsFirst(init_capacity, soh) ==
  [i \in 1..(Len(soh) - 1) |-> init_capacity * soh[i + 1]]

\* capacity = [init_capacity * s / 100 for s in SoH]
\* (init_capacity is in hundreds of mAh, so the value is in mAh / Scale)
Capacity(init_capacity, soh) ==
  [i \in 1..Len(soh) |-> init_capacity * soh[i]]

Run == [SoH |-> SoH, times |-> times, thresholds |-> thresholds,
        day |-> day, pc |-> pc]

-----------------------------------------------------------------------------
(* The page: icon, summary, banner *)

\* battery_svg: green > 80, amber > 60, else red
battery_svg(soh) ==
  IF soh > Pct(80) THEN "#60D394"
  ELSE IF soh > Pct(60) THEN "#FFA600"
  ELSE "#FF4B4B"

\* `if thresholds[80]:` -- None and 0.0 are both false
Truthy(v) == v # None /\ v[1] # 0

\* the summary line for one threshold
Summary(v) == IF Truthy(v) THEN "drops below" ELSE "stays above"

\* the banner under the summary
Banner(soh) ==
  IF soh < Pct(60) THEN "error"
  ELSE IF soh < Pct(80) THEN "warning"
  ELSE "success"

NoUi == [color |-> "", summary |-> [t \in Thresholds |-> ""], banner |-> ""]

-----------------------------------------------------------------------------
(* Single run *)

Init ==
  /\ params \in Bundles
  /\ days \in HorizonValues
  /\ pc = InitialRun.pc
  /\ day = InitialRun.day
  /\ SoH = InitialRun.SoH
  /\ times = InitialRun.times
  /\ thresholds = InitialRun.thresholds
  /\ capacity = <<>>
  /\ ui = NoUi
  /\ lo = <<>>
  /\ hi = <<>>

Loop ==
  /\ pc = "loop"
  /\ LET r == Iterate(params, days, Run)
     IN /\ SoH' = r.SoH
        /\ times' = r.times
        /\ thresholds' = r.thresholds
        /\ day' = r.day
        /\ pc' = r.pc
  /\ UNCHANGED <<params, days, capacity, ui, lo, hi>>

Return ==
  /\ pc = "return"
  /\ capacity' = Capacity(params.init_capacity, SoH)
  /\ pc' = "render"
  /\ UNCHANGED <<params, days, day, SoH, times, thresholds, ui, lo, hi>>

Render ==
  /\ pc = "render"
  /\ ui' = [color |-> battery_svg(Last(SoH)),
            summary |-> [t \in Thresholds |-> Summary(thresholds[t])],
            banner |-> Banner(Last(SoH))]
  /\ pc' = "done"
  /\ UNCHANGED <<params, days, day, SoH, times, thresholds, capacity, lo, hi>>

Next == Loop \/ Return \/ Render

Spec == Init /\ [][Next]_vars

-----------------------------------------------------------------------------
(* Two runs side by side: identical bundles except that `lo` has a lower     *)
(* charge_cycles_per_week or a lower calendar_aging_factor than `hi`.        *)

Lower(a, b) ==
  \/ /\ a.charge_cycles_per_week < b.charge_cycles_per_week
     /\ a = [b EXCEPT !.charge_cycles_per_week = a.charge_cycles_per_week]
  \/ /\ a.calendar_aging_factor < b.calendar_aging_factor
     /\ a = [b EXCEPT !.calendar_aging_factor = a.calendar_aging_factor]

PairInit ==
  /\ days \in PairHorizonValues
  /\ \E a \in Bundles, b \in Bundles :
       /\ Lower(a, b)
       /\ lo = [p |-> a, r |-> InitialRun, capacity |-> <<>>]
       /\ hi = [p |-> b, r |-> InitialRun, capacity |-> <<>>]
  /\ pc = "pair"
  /\ params = <<>>
  /\ day = InitialRun.day
  /\ SoH = InitialRun.SoH
  /\ times = InitialRun.times
  /\ thresholds = InitialRun.thresholds
  /\ capacity = <<>>
  /\ ui = NoUi

\* each call, while it is in its loop, runs one more iteration
Advance(x) ==
  IF x.r.pc = "loop" THEN [x EXCEPT !.r = Iterate(x.p, days, x.r)] ELSE x

PairLoop ==
  /\ pc = "pair"
  /\ lo.r.pc = "loop" \/ hi.r.pc = "loop"
  /\ lo' = Advance(lo)
  /\ hi' = Advance(hi)
  /\ UNCHANGED <<params, days, pc, day, SoH, times, thresholds, capacity, ui>>

PairReturn ==
  /\ pc = "pair"
  /\ lo.r.pc = "return" /\ hi.r.pc = "return"
  /\ lo' = [lo EXCEPT !.capacity = Capacity(lo.p.init_capacity, lo.r.SoH),
                      !.r.pc = "done"]
  /\ hi' = [hi EXCEPT !.capacity = Capacity(hi.p.init_capacity, hi.r.SoH),
                      !.r.pc = "done"]
  /\ UNCHANGED <<params, days, pc, day, SoH, times, thresholds, capacity, ui>>

PairNext == PairLoop \/ PairReturn

PairSpec == PairInit /\ [][PairNext]_vars

\* the interpreter runs the script to its end: no step waits on anything
FairSpec == Spec /\ WF_vars(Next)

-----------------------------------------------------------------------------
(* Helpers of the properties *)

Min(S) == CHOOSE x \in S : \A y \in S : x <= y

\* a <= b for two year fractions
YearLeq(a, b) == a[1] * b[2] <= b[1] * a[2]

NonIncreasing(s) == \A i \in 1..(Len(s) - 1) : s[i + 1] <= s[i]

\* the positions of soh whose value is at or below / strictly below t percent
AtOrBelow(soh, t) == {d \in 1..Len(soh) : soh[d] <= Pct(t)}
Below(soh, t) == {d \in 1..Len(soh) : soh[d] < Pct(t)}

Finished == pc \in {"render", "done"}

-----------------------------------------------------------------------------
(* Properties *)

\* C1: the SoH sequence starts at 100, is non-increasing, and every element
\* lies in [0, 100].
C1_StartsAt100NonIncreasingBounded ==
  /\ SoH[1] = Pct(100)
  /\ NonIncreasing(SoH)
  /\ \A i \in 1..Len(SoH) : 0 <= SoH[i] /\ SoH[i] <= Pct(100)

\* a finished run whose last step overshot zero and was clamped
C1_Witness ==
  /\ pc = "done"
  /\ Len(SoH) > 2
  /\ Last(SoH) = 0
  /\ SoH[Len(SoH) - 1] < degrade(params)

\* C2: a recorded crossing for t names a day d >= 1 with soh_pct[d-1] >= t and
\* soh_pct[d] < t, and its value is d / 365 for that day.
C2_CrossingIsAStrictDrop ==
  \A t \in Thresholds :
    thresholds[t] # None =>
      \E i \in 1..(Len(SoH) - 1) :
        /\ times[i + 1] >= 1
        /\ SoH[i] >= Pct(t)
        /\ SoH[i + 1] < Pct(t)
        /\ thresholds[t] = <<times[i + 1], 365>>

\* both crossings recorded, on different days
C2_Witness ==
  /\ pc = "done"
  /\ thresholds[80] # None
  /\ thresholds[60] # None
  /\ thresholds[80][1] < thresholds[60][1]

\* C3 as stated: the crossing of t is the first day with SoH at or below t.
C3_FirstDayAtOrBelow ==
  \A t \in Thresholds :
    AtOrBelow(SoH, t) # {} =>
      thresholds[t] = <<times[Min(AtOrBelow(SoH, t))], 365>>

\* C3 as amended: the crossing of t is the first day with SoH strictly below t;
\* a day on which SoH equals t is not a crossing.
C3_FirstDayStrictlyBelow ==
  \A t \in Thresholds :
    IF Below(SoH, t) # {}
    THEN thresholds[t] = <<times[Min(Below(SoH, t))], 365>>
    ELSE thresholds[t] = None

\* SoH was exactly 80 on one day and the crossing was recorded on the next
C3_Witness ==
  \E i \in 1..(Len(SoH) - 1) :
    /\ SoH[i] = Pct(80)
    /\ thresholds[80] = <<times[i] + 1, 365>>

\* C4: the crossing of t is absent when SoH never drops to t, present when SoH
\* is below t on some day, hence recorded exactly when the final SoH is below
\* t; the summary line tells the same.
C4_CrossingIffFinalBelow ==
  \A t \in Thresholds :
    /\ AtOrBelow(SoH, t) = {} => thresholds[t] = None
    /\ Below(SoH, t) # {} => thresholds[t] # None
    /\ thresholds[t] # None <=> Last(SoH) < Pct(t)
    /\ pc = "done" =>
         (ui.summary[t] = "drops below" <=> Last(SoH) < Pct(t))

\* a finished page: 80 crossed, 60 not
C4_Witness ==
  /\ pc = "done"
  /\ thresholds[80] # None
  /\ thresholds[60] = None
  /\ ui.summary[80] = "drops below"
  /\ ui.summary[60] = "stays above"

\* C5: once a step appends 0 (next_soh <= 0), nothing more is appended; 0
\* occurs at most once in SoH, and only as its last element.
C5_EarlyTermination ==
  /\ [](\A i \in 1..Len(SoH) : SoH[i] = 0 => i = Len(SoH))
  /\ [](Last(SoH) = 0 => pc # "loop")
  /\ [][Last(SoH) = 0 => SoH' = SoH /\ times' = times]_vars

\* a run cut short: it ended at 0 before the horizon
C5_Witness ==
  /\ pc = "done"
  /\ Last(SoH) = 0
  /\ Len(times) - 1 < days
  /\ Last(times) < days

\* C6: capacity[i] = init_capacity * soh[i] / 100 for every i: same length as
\* SoH, starts at init_capacity, non-increasing, ends at 0 exactly when SoH
\* does.  (init_capacity mAh is init_capacity * Pct(100) in capacity units.)
C6_CapacityDerived ==
  Finished =>
    /\ Len(capacity) = Len(SoH)
    /\ \A i \in 1..Len(SoH) : capacity[i] = params.init_capacity * SoH[i]
    /\ capacity[1] = params.init_capacity * Pct(100)
    /\ NonIncreasing(capacity)
    /\ Last(capacity) = 0 <=> Last(SoH) = 0

\* a capacity list that falls from init_capacity to 0
C6_Witness ==
  /\ pc = "done"
  /\ Len(capacity) > 2
  /\ capacity[2] < capacity[1]
  /\ Last(capacity) = 0

\* what C7 says of every state
C7_Shape ==
  /\ Len(times) - 1 <= days
  /\ \A i \in 1..Len(times) : times[i] = i - 1
  /\ Len(SoH) = Len(times)
  /\ Finished => Len(capacity) = Len(times)
  /\ (pc # "loop" /\ Len(times) - 1 < days) => Last(SoH) = 0

\* C7: the call returns after at most horizon_days iterations, with days =
\* 0..N, N <= horizon_days, all three sequences of length N + 1, and N <
\* horizon_days only if the last SoH is 0.
C7_TerminatesWithConsistentShape ==
  /\ []C7_Shape
  /\ <>(pc = "done")

\* a run that used its whole horizon and did not reach 0
C7_Witness ==
  /\ pc = "done"
  /\ days > 1
  /\ Len(times) = days + 1
  /\ Last(SoH) > 0

\* C8: of two runs that differ only in a lower charge_cycles_per_week or a
\* lower calendar_aging_factor, the lower one degrades strictly less per day,
\* its SoH is never lower on a day both simulate, it simulates at least as
\* many days, and each of its crossings is absent or no earlier.
C8_MonotonicSensitivity ==
  /\ degrade(lo.p) < degrade(hi.p)
  /\ (Len(lo.r.SoH) > 1 /\ Len(hi.r.SoH) > 1) =>
        lo.r.SoH[1] - lo.r.SoH[2] < hi.r.SoH[1] - hi.r.SoH[2]
  /\ \A i \in 1..Len(hi.r.SoH) :
        i <= Len(lo.r.SoH) => lo.r.SoH[i] >= hi.r.SoH[i]
  /\ Len(lo.r.times) >= Len(hi.r.times)
  /\ \A t \in Thresholds :
        lo.r.thresholds[t] # None =>
          /\ hi.r.thresholds[t] # None
          /\ YearLeq(hi.r.thresholds[t], lo.r.thresholds[t])

\* both calls returned, the higher one cut short earlier, having crossed 60
\* strictly before the lower one
C8_Witness ==
  /\ lo.r.pc = "done"
  /\ hi.r.pc = "done"
  /\ Len(lo.r.times) > Len(hi.r.times)
  /\ lo.r.thresholds[60] # None
  /\ hi.r.thresholds[60] # None
  /\ hi.r.thresholds[60][1] < lo.r.thresholds[60][1]

\* C9: a recorded crossing is never changed by a later day, and when the 60
\* crossing is present the 80 crossing is present and not later.
C9_WriteOnceOrdered ==
  /\ [][\A t \in Thresholds :
          thresholds[t] # None => thresholds'[t] = thresholds[t]]_vars
  /\ [](thresholds[60] # None =>
          /\ thresholds[80] # None
          /\ YearLeq(thresholds[80], thresholds[60]))

\* the loop still running two days after the 60 crossing was recorded
C9_Witness ==
  /\ pc = "loop"
  /\ thresholds[60] # None
  /\ Last(times) >= thresholds[60][1] + 2

\* C10: the icon colour and the banner name the same health band.
C10_IconAgreesWithBanner ==
  pc = "done" =>
    /\ ui.color = "#60D394" <=> ui.banner = "success"
    /\ ui.color = "#FFA600" <=> ui.banner = "warning"
    /\ ui.color = "#FF4B4B" <=> ui.banner = "error"

====
